---- MODULE Spec2Model ----
(***************************************************************************)
(* Model of packages/tracing/src/browser/metrics.ts: the                   *)
(* MetricsInstrumentation class (performance timeline -> spans and         *)
(* measurements) and its helpers.                                          *)
(*                                                                         *)
(* Representation.                                                         *)
(*  - Millisecond quantities (entry.startTime, entry.duration, the time    *)
(*    origin, metric values) are integers.                                 *)
(*  - Second quantities (everything msToSec returns, every span and        *)
(*    transaction timestamp) are fixed-point integers counting             *)
(*    microseconds, so that x ms -> x/1000 s is the integer 1000 * x.      *)
(*  - JavaScript `undefined` for a number is Undefined (-1); all real      *)
(*    numbers of the model are >= 0.  An absent string is "".              *)
(*  - Strings that the code searches in or rewrites (entry names, the      *)
(*    entry script src, the origin) are sequences of string tokens.        *)
(*  - Indices into the timeline are the 0-based indices of the code.       *)
(***************************************************************************)
EXTENDS Integers, Sequences, FiniteSets, TLC

VARIABLES
    platform,            \* the global object: which capabilities exist
    navigator,           \* window.navigator as _trackNavigator reads it
    entryScriptSrc,      \* src of the first script with data-entry="true" (<<>> if none)
    timeline,            \* performance.getEntries()
    _measurements,       \* MetricsInstrumentation._measurements
    _browserContext,     \* MetricsInstrumentation._browserContext
    _performanceCursor,  \* MetricsInstrumentation._performanceCursor
    transactions,        \* the transactions handed to addPerformanceEntries
    calls,               \* number of addPerformanceEntries calls made so far
    quiet,               \* the transactions scanned since the last append to the timeline
    cursorsLeft,         \* the cursor values that calls have left so far
    scans,               \* one record per call past the gatekeeper, in order: the
                         \* transaction, the timeline length and the indices visited
    truncation,          \* the last truncation of the timeline: the length it left,
                         \* the cursor at that moment, and the timeline length at
                         \* the end of the first call after it
    lastOp,              \* the operation that produced this state: its inputs, the
                         \* state it started from and the log of its scan
    http                 \* wrapHttpFunction: per request, the transaction, the
                         \* response and the calls of the wrapped res.end

vars == << platform, navigator, entryScriptSrc, timeline, _measurements,
           _browserContext, _performanceCursor, transactions, calls, quiet,
           cursorsLeft, scans, truncation, lastOp, http >>

----------------------------------------------------------------------------
(* Bounds of the model *)

MaxLen == 2
MaxCalls == 2
\* calls of addPerformanceEntries where three in a row are followed
MaxScans == 3
MaxTruncations == 1
\* calls of res.end per request
MaxEnds == 2

----------------------------------------------------------------------------
(* Values *)

Undefined == -1

Truthy(x) == x # Undefined /\ x # 0

Max(a, b) == IF a >= b THEN a ELSE b

\* '../utils' msToSec: time / 1000, in the fixed-point representation of seconds
msToSec(time) == IF time = Undefined THEN Undefined ELSE time * 1000

Ops == {"pageload", "navigation", "custom"}

MKeys == {"fp", "mark.fp", "fcp", "mark.fcp", "lcp", "mark.lcp", "fid", "mark.fid",
          "connection.rtt", "connection.downlink"}

NoMeasurements == [k \in MKeys |-> Undefined]

NoBrowserContext ==
    [effectiveConnectionType |-> "", deviceMemory |-> Undefined,
     hardwareConcurrency |-> Undefined]

----------------------------------------------------------------------------
(* Strings as token sequences *)

\* String.prototype.indexOf: 0-based index of the first occurrence, -1 if none
IndexOf(hay, needle) ==
    LET n == Len(needle)
        hits == {i \in 1..(Len(hay) - n + 1) : SubSeq(hay, i, i + n - 1) = needle}
    IN  IF hits = {} THEN -1
        ELSE (CHOOSE i \in hits : \A j \in hits : i <= j) - 1

\* String.prototype.replace(pattern, '') with a string pattern: the first
\* occurrence is removed
ReplaceFirst(s, pattern) ==
    LET i == IndexOf(s, pattern)
    IN  IF i = -1 THEN s
        ELSE SubSeq(s, 1, i) \o SubSeq(s, i + Len(pattern) + 1, Len(s))

----------------------------------------------------------------------------
(* Span helpers (module-level functions of metrics.ts) *)

NoData == [k \in {} |-> Undefined]

\* _startChild without the boundary reconciliation
_startChild_NoPullBack(transaction, ctx) ==
    [transaction EXCEPT !.spans = Append(@, ctx)]

\* _startChild: pull the transaction start back to an earlier span start, then
\* transaction.startChild (the span is added to the transaction's spans).
\* Yields the updated transaction.
_startChild(transaction, ctx) ==
    LET pulled == IF Truthy(ctx.startTimestamp)
                     /\ transaction.startTimestamp > ctx.startTimestamp
                  THEN [transaction EXCEPT !.startTimestamp = ctx.startTimestamp]
                  ELSE transaction
    IN  [pulled EXCEPT !.spans = Append(@, ctx)]

\* addMeasureSpans: yields the updated transaction and the returned
\* measureStartTimestamp
addMeasureSpans(transaction, entry, startTime, duration, timeOrigin) ==
    LET measureStartTimestamp == timeOrigin + startTime
        measureEndTimestamp == measureStartTimestamp + duration
    IN  [transaction |->
             _startChild(transaction,
                 [description |-> entry.name,
                  endTimestamp |-> measureEndTimestamp,
                  op |-> entry.entryType,
                  startTimestamp |-> measureStartTimestamp,
                  data |-> NoData]),
         result |-> measureStartTimestamp]

DataName == [f \in {"transferSize", "encodedBodySize", "decodedBodySize"} |->
                CASE f = "transferSize" -> "Transfer Size"
                  [] f = "encodedBodySize" -> "Encoded Body Size"
                  [] f = "decodedBodySize" -> "Decoded Body Size"]

\* the `data` record addResourceSpans builds from the size fields present on the entry
ResourceData(entry) ==
    [d \in {DataName[f] : f \in DOMAIN entry.sizes} |->
        entry.sizes[CHOOSE f \in DOMAIN entry.sizes : DataName[f] = d]]

\* the test with 'fetch' forgotten
AlreadyInstrumented_XhrOnly(entry) == entry.initiatorType = "xmlhttprequest"

\* the fetch / xhr test of addResourceSpans
AlreadyInstrumented(entry) ==
    entry.initiatorType = "xmlhttprequest" \/ entry.initiatorType = "fetch"

\* addResourceSpans: yields the updated transaction and the returned end
\* timestamp (Undefined for fetch and xhr entries)
addResourceSpans(transaction, entry, resourceName, startTime, duration, timeOrigin) ==
    IF AlreadyInstrumented(entry)
    THEN [transaction |-> transaction, result |-> Undefined]
    ELSE LET startTimestamp == timeOrigin + startTime
             endTimestamp == startTimestamp + duration
         IN  [transaction |->
                  _startChild(transaction,
                      [description |-> resourceName,
                       endTimestamp |-> endTimestamp,
                       op |-> IF entry.initiatorType # ""
                              THEN "resource." \o entry.initiatorType
                              ELSE "resource",
                       startTimestamp |-> startTimestamp,
                       data |-> ResourceData(entry)]),
              result |-> endTimestamp]

\* the event skipped only when both of its sub-fields are missing
addPerformanceNavigationTiming_BothMissing(transaction, entry, event, timeOrigin) ==
    LET end == entry.nav[event \o "End"]
        start == entry.nav[event \o "Start"]
    IN  IF ~Truthy(start) /\ ~Truthy(end)
        THEN transaction
        ELSE _startChild(transaction,
                 [description |-> << event >>,
                  endTimestamp |-> timeOrigin + msToSec(end),
                  op |-> "browser",
                  startTimestamp |-> timeOrigin + msToSec(start),
                  data |-> NoData])

\* addPerformanceNavigationTiming
addPerformanceNavigationTiming(transaction, entry, event, timeOrigin) ==
    LET end == entry.nav[event \o "End"]
        start == entry.nav[event \o "Start"]
    IN  IF ~Truthy(start) \/ ~Truthy(end)
        THEN transaction
        ELSE _startChild(transaction,
                 [description |-> << event >>,
                  endTimestamp |-> timeOrigin + msToSec(end),
                  op |-> "browser",
                  startTimestamp |-> timeOrigin + msToSec(start),
                  data |-> NoData])

\* addRequest
addRequest(transaction, entry, timeOrigin) ==
    LET t1 == _startChild(transaction,
                  [description |-> << "request" >>,
                   endTimestamp |-> timeOrigin + msToSec(entry.nav["responseEnd"]),
                   op |-> "browser",
                   startTimestamp |-> timeOrigin + msToSec(entry.nav["requestStart"]),
                   data |-> NoData])
    IN  _startChild(t1,
            [description |-> << "response" >>,
             endTimestamp |-> timeOrigin + msToSec(entry.nav["responseEnd"]),
             op |-> "browser",
             startTimestamp |-> timeOrigin + msToSec(entry.nav["responseStart"]),
             data |-> NoData])

\* addNavigationSpans
addNavigationSpans(transaction, entry, timeOrigin) ==
    LET t1 == addPerformanceNavigationTiming(transaction, entry, "unloadEvent", timeOrigin)
        t2 == addPerformanceNavigationTiming(t1, entry, "domContentLoadedEvent", timeOrigin)
        t3 == addPerformanceNavigationTiming(t2, entry, "loadEvent", timeOrigin)
        t4 == addPerformanceNavigationTiming(t3, entry, "connect", timeOrigin)
        t5 == addPerformanceNavigationTiming(t4, entry, "domainLookup", timeOrigin)
    IN  addRequest(t5, entry, timeOrigin)

----------------------------------------------------------------------------
(* MetricsInstrumentation *)

Origin == << "https://app" >>                 \* window.location.origin

InitMarkName == << "sentry-tracing-init" >>

ScriptSrc == Origin \o << "/app.js" >>         \* src of the entry script

\* the gatekeeper without the time-origin test
Gatekeeper_NoOriginTest(p) == ~p.global \/ ~p.performance \/ ~p.getEntries

\* the gatekeeper of addPerformanceEntries: TRUE when the call returns at once
Gatekeeper(p) ==
    ~p.global \/ ~p.performance \/ ~p.getEntries
        \/ ~Truthy(p.browserPerformanceTimeOrigin)

\* the filter dropping an entry that starts with the transaction as well
PreStartFilter_NotAfter(transaction, timeOrigin, startTime) ==
    transaction.op = "navigation" /\ timeOrigin + startTime <= transaction.startTimestamp

\* the navigation-op filter at the head of the forEach callback
PreStartFilter(transaction, timeOrigin, startTime) ==
    transaction.op = "navigation" /\ timeOrigin + startTime < transaction.startTimestamp

\* the entry-script test of the resource case
IsEntryScript(src, resourceName) == IndexOf(src, resourceName) > -1

\* the cursor left at the end of the timeline
NextCursor_Length(length) == Max(length, 0)

\* the cursor left by a call on a timeline of the given length
NextCursor(length) == Max(length - 1, 0)

\* the scan restarting from the head of the timeline
ScannedIndices_FromZero(entries, cursor) == {i \in 0..(Len(entries) - 1) : i >= 0}

\* getEntries().slice(cursor): the 0-based indices the forEach visits
ScannedIndices(entries, cursor) == {i \in 0..(Len(entries) - 1) : i >= cursor}

\* measurements attached whatever the op
AttachesMeasurements_Always(op) == op = op

\* whether measurements and contexts are attached to a transaction of this op
AttachesMeasurements(op) == op = "pageload"

\* fp and fcp recorded in seconds, from the computed start
PaintMeasurements_Seconds(measurements, entry, startTimestamp) ==
    LET m1 == IF entry.name = << "first-paint" >>
              THEN [measurements EXCEPT !["fp"] = msToSec(entry.startTime),
                                        !["mark.fp"] = startTimestamp]
              ELSE measurements
    IN  IF entry.name = << "first-contentful-paint" >>
        THEN [m1 EXCEPT !["fcp"] = msToSec(entry.startTime),
                        !["mark.fcp"] = startTimestamp]
        ELSE m1

\* the web vitals of the mark / paint / measure case: fp and fcp
PaintMeasurements(measurements, entry, startTimestamp) ==
    LET m1 == IF entry.name = << "first-paint" >>
              THEN [measurements EXCEPT !["fp"] = entry.startTime,
                                        !["mark.fp"] = startTimestamp]
              ELSE measurements
    IN  IF entry.name = << "first-contentful-paint" >>
        THEN [m1 EXCEPT !["fcp"] = entry.startTime,
                        !["mark.fcp"] = startTimestamp]
        ELSE m1

\* the case recording a first paint under the LCP mark as well
MeasureCaseWith_MarksLcp(st, entry, r) ==
    [st EXCEPT !.transaction = r.transaction,
               !.tracingInitMarkStartTime =
                   IF @ = Undefined /\ entry.name = InitMarkName
                   THEN r.result ELSE @,
               !.measurements =
                   IF entry.name = << "first-paint" >>
                   THEN [PaintMeasurements(@, entry, r.result)
                            EXCEPT !["mark.lcp"] = r.result]
                   ELSE PaintMeasurements(@, entry, r.result),
               !.returned = r.result]

\* the mark / paint / measure case after addMeasureSpans returned r: the
\* tracing-init mark, fp and fcp
MeasureCaseWith(st, entry, r) ==
    [st EXCEPT !.transaction = r.transaction,
               !.tracingInitMarkStartTime =
                   IF @ = Undefined /\ entry.name = InitMarkName
                   THEN r.result ELSE @,
               !.measurements = PaintMeasurements(@, entry, r.result),
               !.returned = r.result]

\* the mark / paint / measure case
MeasureCase(st, entry, startTime, duration, timeOrigin) ==
    MeasureCaseWith(st, entry,
        addMeasureSpans(st.transaction, entry, startTime, duration, timeOrigin))

\* the resource case after addResourceSpans returned r: the entry-script end
ResourceCaseWith(st, resourceName, src, r) ==
    [st EXCEPT !.transaction = r.transaction,
               !.entryScriptStartTimestamp =
                   IF @ = Undefined /\ IsEntryScript(src, resourceName)
                   THEN r.result ELSE @,
               !.returned = r.result]

\* the resource case, the origin already stripped from the name
ResourceCaseNamed(st, entry, resourceName, startTime, duration, timeOrigin, src) ==
    ResourceCaseWith(st, resourceName, src,
        addResourceSpans(st.transaction, entry, resourceName, startTime,
                         duration, timeOrigin))

\* the resource case
ResourceCase(st, entry, startTime, duration, timeOrigin, src) ==
    ResourceCaseNamed(st, entry, ReplaceFirst(entry.name, Origin), startTime,
                      duration, timeOrigin, src)

\* the switch on entry.entryType
Dispatch(s0, entry, startTime, duration, timeOrigin, src) ==
    CASE entry.entryType = "navigation" ->
             [s0 EXCEPT !.transaction = addNavigationSpans(@, entry, timeOrigin)]
      [] entry.entryType \in {"mark", "paint", "measure"} ->
             MeasureCase(s0, entry, startTime, duration, timeOrigin)
      [] entry.entryType = "resource" ->
             ResourceCase(s0, entry, startTime, duration, timeOrigin, src)
      [] OTHER -> s0

\* the callback without the navigation filter
ProcessEntry_Unfiltered(st, entry, timeOrigin, src) ==
    Dispatch([st EXCEPT !.returned = Undefined, !.skipped = FALSE], entry,
             msToSec(entry.startTime), msToSec(entry.duration), timeOrigin, src)

\* one run of the forEach callback on one entry.  st holds the transaction,
\* the measurement set and the two locals of addPerformanceEntries; `returned`
\* is what addMeasureSpans / addResourceSpans returned for this entry and
\* `skipped` whether the navigation filter dropped it.
ProcessEntry(st, entry, timeOrigin, src) ==
    IF PreStartFilter(st.transaction, timeOrigin, msToSec(entry.startTime))
    THEN [st EXCEPT !.returned = Undefined, !.skipped = TRUE]
    ELSE Dispatch([st EXCEPT !.returned = Undefined, !.skipped = FALSE], entry,
                  msToSec(entry.startTime), msToSec(entry.duration), timeOrigin, src)

\* what the log keeps of a scan state
Snapshot(st) ==
    [nspans |-> Len(st.transaction.spans),
     startTimestamp |-> st.transaction.startTimestamp,
     measurements |-> st.measurements,
     entryScriptStartTimestamp |-> st.entryScriptStartTimestamp,
     tracingInitMarkStartTime |-> st.tracingInitMarkStartTime]

\* the scan state nx reached from st on entry i, with the visit logged
Logged(st, nx, entry, i) ==
    [nx EXCEPT !.log = Append(@, [index |-> i, entry |-> entry,
                                  skipped |-> nx.skipped, returned |-> nx.returned,
                                  before |-> Snapshot(st), after |-> Snapshot(nx)])]

\* the forEach over entries[i..], i 0-based; every visit is logged
RECURSIVE ForEach(_, _, _, _, _)
ForEach(st, entries, i, timeOrigin, src) ==
    IF i >= Len(entries) THEN st
    ELSE ForEach(Logged(st, ProcessEntry(st, entries[i + 1], timeOrigin, src),
                        entries[i + 1], i),
                 entries, i + 1, timeOrigin, src)

\* the snapshot recording a round-trip time of 0 where none is reported
_trackNavigator_DefaultRtt(measurements, browserContext, nav) ==
    LET hasConnection == nav.present /\ nav.connection.present
        m1 == IF hasConnection /\ nav.connection.rtt # Undefined
              THEN [measurements EXCEPT !["connection.rtt"] = nav.connection.rtt]
              ELSE [measurements EXCEPT !["connection.rtt"] = 0]
        m2 == IF hasConnection /\ nav.connection.downlink # Undefined
              THEN [m1 EXCEPT !["connection.downlink"] = nav.connection.downlink]
              ELSE m1
        c1 == IF hasConnection /\ nav.connection.effectiveType # ""
              THEN [browserContext EXCEPT
                       !.effectiveConnectionType = nav.connection.effectiveType]
              ELSE browserContext
        c2 == IF nav.present /\ nav.deviceMemory # Undefined
              THEN [c1 EXCEPT !.deviceMemory = nav.deviceMemory]
              ELSE c1
        c3 == IF nav.present /\ nav.hardwareConcurrency # Undefined
              THEN [c2 EXCEPT !.hardwareConcurrency = nav.hardwareConcurrency]
              ELSE c2
    IN  [measurements |-> m2, browserContext |-> c3]

\* _trackNavigator: yields the measurement set and the browser context
_trackNavigator(measurements, browserContext, nav) ==
    LET hasConnection == nav.present /\ nav.connection.present
        m1 == IF hasConnection /\ nav.connection.rtt # Undefined
              THEN [measurements EXCEPT !["connection.rtt"] = nav.connection.rtt]
              ELSE measurements
        m2 == IF hasConnection /\ nav.connection.downlink # Undefined
              THEN [m1 EXCEPT !["connection.downlink"] = nav.connection.downlink]
              ELSE m1
        c1 == IF hasConnection /\ nav.connection.effectiveType # ""
              THEN [browserContext EXCEPT
                       !.effectiveConnectionType = nav.connection.effectiveType]
              ELSE browserContext
        c2 == IF nav.present /\ nav.deviceMemory # Undefined
              THEN [c1 EXCEPT !.deviceMemory = nav.deviceMemory]
              ELSE c1
        c3 == IF nav.present /\ nav.hardwareConcurrency # Undefined
              THEN [c2 EXCEPT !.hardwareConcurrency = nav.hardwareConcurrency]
              ELSE c2
    IN  [measurements |-> m2, browserContext |-> c3]

\* the LCP callback without the empty-list test
OnLCP_NoEmptyTest(measurements, metric, perfTimeOrigin) ==
    IF metric.entries = << >>
    THEN [measurements EXCEPT !["lcp"] = metric.value]
    ELSE [measurements EXCEPT
             !["lcp"] = metric.value,
             !["mark.lcp"] = msToSec(perfTimeOrigin)
                             + msToSec(metric.entries[Len(metric.entries)].startTime)]

\* the callback _trackLCP registers with getLCP
OnLCP(measurements, metric, perfTimeOrigin) ==
    IF metric.entries = << >> THEN measurements
    ELSE LET entry == metric.entries[Len(metric.entries)]
             timeOrigin == msToSec(perfTimeOrigin)
             startTime == msToSec(entry.startTime)
         IN  [measurements EXCEPT !["lcp"] = metric.value,
                                  !["mark.lcp"] = timeOrigin + startTime]

\* the FID callback taking the first entry of the list
OnFID_FirstEntry(measurements, metric, perfTimeOrigin) ==
    IF metric.entries = << >> THEN measurements
    ELSE [measurements EXCEPT
             !["fid"] = metric.value,
             !["mark.fid"] = msToSec(perfTimeOrigin) + msToSec(metric.entries[1].startTime)]

\* the callback _trackFID registers with getFID
OnFID(measurements, metric, perfTimeOrigin) ==
    IF metric.entries = << >> THEN measurements
    ELSE LET entry == metric.entries[Len(metric.entries)]
             timeOrigin == msToSec(perfTimeOrigin)
             startTime == msToSec(entry.startTime)
         IN  [measurements EXCEPT !["fid"] = metric.value,
                                  !["mark.fid"] = timeOrigin + startTime]

\* Transaction.setContexts: the transaction holds the context record given
setContexts(transaction, contexts) == [transaction EXCEPT !.contexts = << contexts >>]

\* Transaction.setMeasurements: the transaction holds a copy of the set given
setMeasurements(transaction, measurements) ==
    [transaction EXCEPT !.measurements = << measurements >>]

\* the scan restarting from the head when the cursor is at or past the end
FirstScanned_Guarded(entries, cursor) ==
    IF ScannedIndices(entries, cursor) = {} THEN 0
    ELSE CHOOSE i \in ScannedIndices(entries, cursor) :
             \A j \in ScannedIndices(entries, cursor) : i <= j

\* the first index of slice(cursor), the timeline's length if the slice is empty
FirstScanned(entries, cursor) ==
    IF ScannedIndices(entries, cursor) = {} THEN Len(entries)
    ELSE CHOOSE i \in ScannedIndices(entries, cursor) :
             \A j \in ScannedIndices(entries, cursor) : i <= j

\* the scan of addPerformanceEntries: the locals start undefined
Scan(self, transaction, env) ==
    ForEach([transaction |-> transaction,
             measurements |-> self._measurements,
             entryScriptStartTimestamp |-> Undefined,
             tracingInitMarkStartTime |-> Undefined,
             returned |-> Undefined, skipped |-> FALSE, log |-> << >>],
            env.timeline,
            FirstScanned(env.timeline, self._performanceCursor),
            msToSec(env.platform.browserPerformanceTimeOrigin),
            env.entryScriptSrc)

\* the evaluation span emitted as soon as one of the two was captured
Evaluation_Either(st) ==
    IF st.entryScriptStartTimestamp # Undefined
       \/ st.tracingInitMarkStartTime # Undefined
    THEN _startChild(st.transaction,
             [description |-> << "evaluation" >>,
              endTimestamp |-> st.tracingInitMarkStartTime,
              op |-> "script",
              startTimestamp |-> st.entryScriptStartTimestamp,
              data |-> NoData])
    ELSE st.transaction

\* the evaluation span after the scan: yields the transaction
Evaluation(st) ==
    IF st.entryScriptStartTimestamp # Undefined
       /\ st.tracingInitMarkStartTime # Undefined
    THEN _startChild(st.transaction,
             [description |-> << "evaluation" >>,
              endTimestamp |-> st.tracingInitMarkStartTime,
              op |-> "script",
              startTimestamp |-> st.entryScriptStartTimestamp,
              data |-> NoData])
    ELSE st.transaction

\* the pageload branch once _trackNavigator has yielded nav
Attached(transaction, cursor, log, nav) ==
    [self |-> [_measurements |-> nav.measurements,
               _browserContext |-> nav.browserContext,
               _performanceCursor |-> cursor],
     transaction |-> setMeasurements(
                         setContexts(transaction, [browser |-> nav.browserContext]),
                         nav.measurements),
     log |-> log, gated |-> FALSE]

\* the end of the call with the cursor left one past the end of the timeline
Finish_PastEnd(self, op, env, measurements, log, transaction) ==
    IF AttachesMeasurements(op)
    THEN Attached(transaction, Len(env.timeline) + 1, log,
                  _trackNavigator(measurements, self._browserContext, env.navigator))
    ELSE [self |-> [_measurements |-> measurements,
                    _browserContext |-> self._browserContext,
                    _performanceCursor |-> Len(env.timeline) + 1],
          transaction |-> transaction,
          log |-> log, gated |-> FALSE]

\* the end of addPerformanceEntries: the cursor, and for a pageload
\* transaction the navigator snapshot, the contexts and the measurements
Finish(self, op, env, measurements, log, transaction) ==
    IF AttachesMeasurements(op)
    THEN Attached(transaction, NextCursor(Len(env.timeline)), log,
                  _trackNavigator(measurements, self._browserContext, env.navigator))
    ELSE [self |-> [_measurements |-> measurements,
                    _browserContext |-> self._browserContext,
                    _performanceCursor |-> NextCursor(Len(env.timeline))],
          transaction |-> transaction,
          log |-> log, gated |-> FALSE]

\* addPerformanceEntries after the scan has yielded st
AfterScan(self, op, env, st) ==
    Finish(self, op, env, st.measurements, st.log, Evaluation(st))

\* addPerformanceEntries on `transaction`, in an instrumentation whose fields
\* are `self`, against the environment env (platform, timeline, navigator,
\* entry script).  Yields the fields and the transaction after the call, and
\* the log of the scan.
addPerformanceEntries(self, transaction, env) ==
    IF Gatekeeper(env.platform)
    THEN [self |-> self, transaction |-> transaction, log |-> << >>, gated |-> TRUE]
    ELSE AfterScan(self, transaction.op, env, Scan(self, transaction, env))

----------------------------------------------------------------------------
(* The environment: platforms, navigators, timeline entries, vital metrics *)

TimeOriginMs == CHOOSE t \in {1000} : TRUE     \* performance.timeOrigin, in ms

Platform(g, p, ge, bpto) ==
    [global |-> g, performance |-> p, getEntries |-> ge,
     browserPerformanceTimeOrigin |-> bpto,
     timeOrigin |-> IF p THEN TimeOriginMs ELSE Undefined]

Platforms ==
    { Platform(FALSE, FALSE, FALSE, Undefined),    \* no global object
      Platform(TRUE, FALSE, FALSE, Undefined),     \* no global.performance
      Platform(TRUE, TRUE, FALSE, TimeOriginMs),   \* no getEntries
      Platform(TRUE, TRUE, TRUE, Undefined),       \* no browserPerformanceTimeOrigin
      Platform(TRUE, TRUE, TRUE, TimeOriginMs) }

Connection(p, et, rtt, dl) ==
    [present |-> p, effectiveType |-> et, rtt |-> rtt, downlink |-> dl]

NoConnection == Connection(FALSE, "", Undefined, Undefined)

Connections == { Connection(TRUE, "4g", 50, 10), Connection(TRUE, "", Undefined, 0) }

NoNavigator ==
    [present |-> FALSE, connection |-> NoConnection,
     deviceMemory |-> Undefined, hardwareConcurrency |-> Undefined]

Navigator4g ==
    [present |-> TRUE, connection |-> Connection(TRUE, "4g", 50, 10),
     deviceMemory |-> Undefined, hardwareConcurrency |-> 4]

Navigators ==
    { NoNavigator,
      [present |-> TRUE, connection |-> NoConnection,
       deviceMemory |-> 8, hardwareConcurrency |-> Undefined],
      Navigator4g }

FullPlatform == Platform(TRUE, TRUE, TRUE, TimeOriginMs)

\* the environments of the timeline scan: every platform
ScanEnvironments ==
    { [platform |-> p, navigator |-> Navigator4g, entryScriptSrc |-> ScriptSrc] :
          p \in Platforms }

\* every platform, every navigator and both entry script settings, varied one
\* at a time around the full platform
Environments ==
    ScanEnvironments
    \cup { [platform |-> FullPlatform, navigator |-> n, entryScriptSrc |-> ScriptSrc] :
           n \in Navigators }
    \cup { [platform |-> FullPlatform, navigator |-> Navigator4g,
            entryScriptSrc |-> << >>] }

NavKeys ==
    { e \o s : e \in {"unloadEvent", "domContentLoadedEvent", "loadEvent",
                      "connect", "domainLookup"}, s \in {"Start", "End"} }
    \cup {"requestStart", "responseStart", "responseEnd"}

NoNav == [k \in NavKeys |-> Undefined]

NoSizes == [k \in {} |-> Undefined]

Entry(type, name, startTime, duration, initiatorType, sizes, nav) ==
    [entryType |-> type, name |-> name, startTime |-> startTime,
     duration |-> duration, initiatorType |-> initiatorType, sizes |-> sizes,
     nav |-> nav]

InitMark == Entry("mark", InitMarkName, 3, 0, "", NoSizes, NoNav)

NavA == [NoNav EXCEPT !["unloadEventStart"] = 0, !["unloadEventEnd"] = 0,
                      !["domainLookupStart"] = 1,
                      !["connectEnd"] = 3,
                      !["requestStart"] = 3, !["responseStart"] = 4,
                      !["responseEnd"] = 5,
                      !["domContentLoadedEventStart"] = 6,
                      !["domContentLoadedEventEnd"] = 7,
                      !["loadEventStart"] = 8, !["loadEventEnd"] = 9]

EntryPool ==
    { InitMark,
      Entry("paint", << "first-paint" >>, 1, 0, "", NoSizes, NoNav),
      Entry("measure", << "first-paint" >>, 3, 2, "", NoSizes, NoNav),
      Entry("paint", << "first-contentful-paint" >>, 2, 0, "", NoSizes, NoNav),
      Entry("resource", ScriptSrc, 1, 1, "script",
            [k \in {"transferSize", "decodedBodySize"} |-> 7], NoNav),
      Entry("resource", ScriptSrc, 3, 1, "fetch", NoSizes, NoNav),
      Entry("resource", Origin \o << "/api" >>, 1, 1, "xmlhttprequest",
            [k \in {"transferSize"} |-> 7], NoNav),
      Entry("resource", << "https://cdn", "/img" >>, 3, 0, "",
            [k \in {"encodedBodySize"} |-> 7], NoNav),
      Entry("navigation", << "document" >>, 0, 9, "navigation", NoSizes, NavA),
      Entry("longtask", << "self" >>, 3, 1, "", NoSizes, NoNav) }

Metric(value, times) ==
    [value |-> value, entries |-> [i \in 1..Len(times) |-> [startTime |-> times[i]]]]

NoMetric == Metric(Undefined, << >>)

LCPMetrics == { Metric(5, << >>), Metric(5, << 2, 1 >>), Metric(9, << 1, 2 >>) }

FIDMetrics == { Metric(4, << >>), Metric(6, << 3, 4 >>) }

TxOp == << "pageload", "navigation", "custom" >>

TxIds == 1..Len(TxOp)

TxStart == msToSec(TimeOriginMs + 2)

NewTransaction(op) ==
    [op |-> op, startTimestamp |-> TxStart, spans |-> << >>,
     contexts |-> << >>, measurements |-> << >>]

----------------------------------------------------------------------------
(* State machine *)

Self == [_measurements |-> _measurements, _browserContext |-> _browserContext,
         _performanceCursor |-> _performanceCursor]

Env == [platform |-> platform, timeline |-> timeline, navigator |-> navigator,
        entryScriptSrc |-> entryScriptSrc]

\* the state an operation started from
Before == [self |-> Self, transactions |-> transactions, cursorsLeft |-> cursorsLeft,
           scans |-> scans, truncation |-> truncation]

Op(kind, tx, metric, r) ==
    [kind |-> kind, tx |-> tx, metric |-> metric, gated |-> r.gated,
     repeat |-> r.repeat, log |-> r.log, before |-> Before]

NoCall == [gated |-> FALSE, repeat |-> FALSE, log |-> << >>]

\* the timeline exists for the program only where it can read it
TimelineReadable(p) ==
    p.global /\ p.performance /\ p.getEntries /\ Truthy(p.browserPerformanceTimeOrigin)

\* the requests served by the wrapped HTTP function
Requests == {"first", "second"}

\* a request the wrapper has not been invoked for
NoRequest ==
    [events |-> << >>,
     transaction |-> [started |-> FALSE, status |-> Undefined, finished |-> 0],
     statusCode |-> Undefined,
     ends |-> << >>]

NoTruncation == [count |-> 0, length |-> Undefined, cursor |-> Undefined,
                 resumed |-> Undefined]

\* the state the constructor leaves in one of the environments envs, on one of
\* the timelines given: the tracing-init mark (where performance.mark exists)
\* after what the page recorded before, the two vital subscriptions (the LCP
\* and FID actions) and a first navigator snapshot
Constructed(envs, timelines) ==
    /\ \E env \in envs :
          /\ platform = env.platform
          /\ navigator = env.navigator
          /\ entryScriptSrc = env.entryScriptSrc
    /\ timeline \in IF platform.global /\ platform.performance
                     THEN timelines ELSE { << >> }
    /\ LET nav == _trackNavigator(NoMeasurements, NoBrowserContext, navigator)
       IN  IF platform.global /\ platform.performance
           THEN /\ _measurements = nav.measurements
                /\ _browserContext = nav.browserContext
           ELSE /\ _measurements = NoMeasurements
                /\ _browserContext = NoBrowserContext
    /\ _performanceCursor = 0
    /\ transactions = [t \in TxIds |-> NewTransaction(TxOp[t])]
    /\ calls = 0
    /\ quiet = {}
    /\ cursorsLeft = {}
    /\ scans = << >>
    /\ truncation = NoTruncation
    /\ http = [r \in Requests |-> NoRequest]
    /\ lastOp = [kind |-> "constructor", tx |-> 0, metric |-> NoMetric,
                 gated |-> FALSE, repeat |-> FALSE, log |-> << >>,
                 before |-> [self |-> [_measurements |-> NoMeasurements,
                                       _browserContext |-> NoBrowserContext,
                                       _performanceCursor |-> 0],
                             transactions |-> [t \in TxIds |-> NewTransaction(TxOp[t])],
                             cursorsLeft |-> {}, scans |-> << >>,
                             truncation |-> NoTruncation]]

\* the timeline at construction: empty (no performance.mark) or the mark alone
FreshTimelines == { << >>, << InitMark >> }

\* the timeline at construction, late in a page load
LoadedTimelines ==
    FreshTimelines
    \cup { << CHOOSE e \in EntryPool : e.initiatorType = "script",
              CHOOSE e \in EntryPool : e.entryType = "paint" /\ e.startTime = 1,
              InitMark >> }

Init == Constructed(Environments, FreshTimelines)

InitScan == Constructed(ScanEnvironments, FreshTimelines)

InitVitals == Constructed(Environments, LoadedTimelines)

\* the platform appends an entry to the performance timeline
AppendEntry(e) ==
    /\ TimelineReadable(platform)
    /\ Len(timeline) < MaxLen
    /\ timeline' = Append(timeline, e)
    /\ quiet' = {}
    /\ lastOp' = Op("append", 0, NoMetric, NoCall)
    /\ UNCHANGED << platform, navigator, entryScriptSrc, _measurements,
                    _browserContext, _performanceCursor, transactions, calls,
                    cursorsLeft, scans, truncation, http >>

\* what is kept of a call's scan: the indices visited and those dispatched
ScanRecord(t, log) ==
    [tx |-> t, length |-> Len(timeline),
     visited |-> {log[k].index : k \in 1..Len(log)},
     dispatched |-> {log[k].index : k \in {j \in 1..Len(log) : ~log[j].skipped}}]

\* the state after a call on transactions[t] that yielded r
Returned(t, r) ==
    /\ _measurements' = r.self._measurements
    /\ _browserContext' = r.self._browserContext
    /\ _performanceCursor' = r.self._performanceCursor
    /\ transactions' = [transactions EXCEPT ![t] = r.transaction]
    /\ quiet' = IF r.gated THEN quiet ELSE quiet \cup {t}
    /\ cursorsLeft' = cursorsLeft \cup {r.self._performanceCursor}
    /\ scans' = IF r.gated THEN scans ELSE Append(scans, ScanRecord(t, r.log))
    /\ truncation' = IF ~r.gated /\ truncation.count > 0
                         /\ truncation.resumed = Undefined
                      THEN [truncation EXCEPT !.resumed = Len(timeline)]
                      ELSE truncation
    /\ lastOp' = Op("addPerformanceEntries", t, NoMetric,
                    [gated |-> r.gated, repeat |-> t \in quiet, log |-> r.log])

\* a caller runs addPerformanceEntries(transactions[t]), as one of at most
\* `limit` calls
AddPerformanceEntriesWithin(t, limit) ==
    /\ calls < limit
    /\ Returned(t, addPerformanceEntries(Self, transactions[t], Env))
    /\ calls' = calls + 1
    /\ UNCHANGED << platform, navigator, entryScriptSrc, timeline, http >>

\* a caller runs addPerformanceEntries(transactions[t])
AddPerformanceEntries(t) == AddPerformanceEntriesWithin(t, MaxCalls)

\* the platform drops the tail of the performance timeline, keeping its first
\* n entries (n = 0: the buffer is cleared)
Truncate(n) ==
    /\ TimelineReadable(platform)
    /\ truncation.count < MaxTruncations
    /\ n < Len(timeline)
    /\ timeline' = SubSeq(timeline, 1, n)
    /\ quiet' = {}
    /\ truncation' = [count |-> truncation.count + 1, length |-> n,
                      cursor |-> _performanceCursor, resumed |-> Undefined]
    /\ lastOp' = Op("truncate", 0, NoMetric, NoCall)
    /\ UNCHANGED << platform, navigator, entryScriptSrc, _measurements,
                    _browserContext, _performanceCursor, transactions, calls,
                    cursorsLeft, scans, http >>

\* the LCP callback with every transaction sharing the measurement set it was
\* given rather than holding a copy of it
LCP_Shared(metric) ==
    /\ platform.global /\ platform.performance
    /\ _measurements' = OnLCP(_measurements, metric, platform.timeOrigin)
    /\ transactions' =
           [t \in TxIds |->
               IF transactions[t].measurements = << >> THEN transactions[t]
               ELSE setMeasurements(transactions[t], _measurements')]
    /\ lastOp' = Op("lcp", 0, metric, NoCall)
    /\ UNCHANGED << platform, navigator, entryScriptSrc, timeline, _browserContext,
                    _performanceCursor, calls, quiet,
                    cursorsLeft, scans, truncation, http >>

\* the platform fires the LCP callback
LCP(metric) ==
    /\ platform.global /\ platform.performance
    /\ _measurements' = OnLCP(_measurements, metric, platform.timeOrigin)
    /\ lastOp' = Op("lcp", 0, metric, NoCall)
    /\ UNCHANGED << platform, navigator, entryScriptSrc, timeline, _browserContext,
                    _performanceCursor, transactions, calls, quiet,
                    cursorsLeft, scans, truncation, http >>

\* the platform fires the FID callback
FID(metric) ==
    /\ platform.global /\ platform.performance
    /\ _measurements' = OnFID(_measurements, metric, platform.timeOrigin)
    /\ lastOp' = Op("fid", 0, metric, NoCall)
    /\ UNCHANGED << platform, navigator, entryScriptSrc, timeline, _browserContext,
                    _performanceCursor, transactions, calls, quiet,
                    cursorsLeft, scans, truncation, http >>

\* the network conditions reported by navigator.connection change
ConnectionChange(c) ==
    /\ navigator.present /\ navigator.connection.present
    /\ c # navigator.connection
    /\ navigator' = [navigator EXCEPT !.connection = c]
    /\ lastOp' = Op("connection", 0, NoMetric, NoCall)
    /\ UNCHANGED << platform, entryScriptSrc, timeline, _measurements,
                    _browserContext, _performanceCursor, transactions, calls, quiet,
                    cursorsLeft, scans, truncation, http >>

Next ==
    \/ \E e \in EntryPool : AppendEntry(e)
    \/ \E t \in TxIds : AddPerformanceEntries(t)
    \/ \E metric \in LCPMetrics : LCP(metric)
    \/ \E metric \in FIDMetrics : FID(metric)
    \/ \E c \in Connections : ConnectionChange(c)

\* every operation, under every interleaving
Spec == Init /\ [][Next]_vars

\* the timeline scan: appends and addPerformanceEntries calls, no vital fires
NextScan ==
    \/ \E e \in EntryPool : AppendEntry(e)
    \/ \E t \in TxIds : AddPerformanceEntries(t)

SpecScan == InitScan /\ [][NextScan]_vars

\* the vital callbacks and the navigator against addPerformanceEntries calls,
\* on the timeline found at construction
NextVitals ==
    \/ \E metric \in LCPMetrics : LCP(metric)
    \/ \E metric \in FIDMetrics : FID(metric)
    \/ \E t \in TxIds : AddPerformanceEntries(t)
    \/ \E c \in Connections : ConnectionChange(c)

SpecVitals == InitVitals /\ [][NextVitals]_vars

\* the environments of a timeline the program can read
ReadableEnvironments == {env \in ScanEnvironments : TimelineReadable(env.platform)}

InitReadable == Constructed(ReadableEnvironments, FreshTimelines)

\* the entries appended where only the indices scanned matter: the
\* tracing-init mark and a paint starting with the transactions
IndexPool ==
    {e \in EntryPool : e = InitMark \/ e.name = << "first-contentful-paint" >>}

\* the timeline scan over three calls in a row on an append-only timeline
NextCoverage ==
    \/ \E e \in IndexPool : AppendEntry(e)
    \/ \E t \in TxIds : AddPerformanceEntriesWithin(t, MaxScans)

SpecCoverage == InitReadable /\ [][NextCoverage]_vars

\* the transaction scanned around a truncation: the pageload one
TruncationTx == {t \in TxIds : TxOp[t] = "pageload"}

\* the timeline scan on a timeline the platform may truncate
NextTruncate ==
    \/ \E e \in IndexPool : AppendEntry(e)
    \/ \E t \in TruncationTx : AddPerformanceEntriesWithin(t, MaxScans)
    \/ \E n \in 0..(MaxLen - 1) : Truncate(n)

SpecTruncate == InitReadable /\ [][NextTruncate]_vars

\* the entry script loaded as the transactions start
LateScript ==
    Entry("resource", ScriptSrc, 2, 1, "script",
          [k \in {"transferSize"} |-> 7], NoNav)

\* the mark, paint, measure and resource entries
NavigationPool ==
    {e \in EntryPool : e.entryType \in {"mark", "paint", "measure", "resource"}}
    \cup {LateScript}

\* the timeline scan over mark, paint, measure and resource entries only
NextNavigation ==
    \/ \E e \in NavigationPool : AppendEntry(e)
    \/ \E t \in TxIds : AddPerformanceEntries(t)

SpecNavigation == InitReadable /\ [][NextNavigation]_vars

----------------------------------------------------------------------------
(* wrapHttpFunction *)

metricsVars == << platform, navigator, entryScriptSrc, timeline, _measurements,
                  _browserContext, _performanceCursor, transactions, calls, quiet,
                  cursorsLeft, scans, truncation, lastOp >>

StatusCodes == {200, 500}

\* the function wrapHttpFunction returns, run for request r up to the call of
\* the user handler: the statements in order
Handler(r) ==
    /\ http[r].events = << >>
    /\ http' = [http EXCEPT
                   ![r].transaction.started = TRUE,
                   ![r].events = << "startTransaction", "setSpan",
                                    "__sentry_transaction", "onError", "res.end =",
                                    "fn" >>]
    /\ UNCHANGED metricsVars

\* the wrapped res.end with the original res.end called at once
res_end_EndsAtOnce(r, statusCode) ==
    /\ http[r].events # << >>
    /\ Len(http[r].ends) < MaxEnds
    /\ http' = [http EXCEPT
                   ![r].statusCode = statusCode,
                   ![r].transaction.status = statusCode,
                   ![r].transaction.finished = @ + 1,
                   ![r].ends = Append(@, << "setHttpStatus", "finish", "_end",
                                            "flush" >>)]
    /\ UNCHANGED metricsVars

\* the user handler calls res.end (the wrapped one) on a response whose
\* statusCode it has set: the synchronous part, up to the start of the flush.
\* Each call is kept as the sequence of what happened for it, in order.
res_end(r, statusCode) ==
    /\ http[r].events # << >>
    /\ Len(http[r].ends) < MaxEnds
    /\ http' = [http EXCEPT
                   ![r].statusCode = statusCode,
                   ![r].transaction.status = statusCode,
                   ![r].transaction.finished = @ + 1,
                   ![r].ends = Append(@, << "setHttpStatus", "finish", "flush" >>)]
    /\ UNCHANGED metricsVars

Last(seq) == seq[Len(seq)]

\* the promise flush returned for call k of request r settles
FlushSettles(r, k, outcome) ==
    /\ k \in 1..Len(http[r].ends)
    /\ Last(http[r].ends[k]) = "flush"
    /\ http' = [http EXCEPT ![r].ends[k] = Append(@, outcome)]
    /\ UNCHANGED metricsVars

\* the first then-callback: the original res.end, which may throw
ThenEnd(r, k, throws) ==
    /\ k \in 1..Len(http[r].ends)
    /\ Last(http[r].ends[k]) = "resolved"
    /\ http' = [http EXCEPT ![r].ends[k] =
                   Append(@, IF throws THEN "_end throws" ELSE "_end")]
    /\ UNCHANGED metricsVars

\* the rejection callback: a rejected flush, or an original res.end that threw,
\* is logged
ThenLog(r, k) ==
    /\ k \in 1..Len(http[r].ends)
    /\ Last(http[r].ends[k]) \in {"rejected", "_end throws"}
    /\ http' = [http EXCEPT ![r].ends[k] = Append(@, "logger.error")]
    /\ UNCHANGED metricsVars

InitHttp == Constructed(ReadableEnvironments, { << >> })

NextHttp ==
    \/ \E r \in Requests : Handler(r)
    \/ \E r \in Requests, statusCode \in StatusCodes : res_end(r, statusCode)
    \/ \E r \in Requests, k \in 1..MaxEnds, outcome \in {"resolved", "rejected"} :
           FlushSettles(r, k, outcome)
    \/ \E r \in Requests, k \in 1..MaxEnds, throws \in BOOLEAN : ThenEnd(r, k, throws)
    \/ \E r \in Requests, k \in 1..MaxEnds : ThenLog(r, k)

SpecHttp == InitHttp /\ [][NextHttp]_vars

----------------------------------------------------------------------------
(* Properties *)

IsCall == lastOp.kind = "addPerformanceEntries"

\* the transaction of the last call, after and before it
CallTx == transactions[lastOp.tx]
CallTxBefore == lastOp.before.transactions[lastOp.tx]

\* what the last call's scan logged, entry by entry
LogItems == {lastOp.log[k] : k \in 1..Len(lastOp.log)}

Dispatched == {item \in LogItems : ~item.skipped}

\* C1: idempotence.  A call of addPerformanceEntries on a transaction already
\* scanned, with no entry appended to the timeline since, adds no span to it.
C1_Idempotence ==
    (IsCall /\ lastOp.repeat) => CallTx.spans = CallTxBefore.spans

\* C2: cursor monotonicity.  The cursor a call leaves is at least every cursor
\* value left by an earlier call, and the call visits no timeline index below
\* a cursor value left by an earlier call.
C2_CursorMonotone ==
    IsCall =>
        \A c \in lastOp.before.cursorsLeft :
            /\ _performanceCursor >= c
            /\ \A item \in LogItems : item.index >= c

C2_Witness ==
    /\ IsCall /\ ~lastOp.gated
    /\ 1 \in lastOp.before.cursorsLeft
    /\ \E item \in Dispatched : item.index = 1

\* C3: boundary containment.  A transaction starts no later than any of the
\* spans created on it.
C3_BoundaryContainment ==
    \A t \in TxIds :
        \A k \in 1..Len(transactions[t].spans) :
            transactions[t].startTimestamp <= transactions[t].spans[k].startTimestamp

C3_Witness ==
    \E t \in TxIds :
        /\ transactions[t].startTimestamp < TxStart
        /\ \E k \in 1..Len(transactions[t].spans) :
              /\ transactions[t].spans[k].op = "script"
              /\ transactions[t].spans[k].startTimestamp > transactions[t].startTimestamp

\* C4: resource de-duplication.  A resource entry initiated by xmlhttprequest
\* or fetch creates no span, leaves the transaction start alone, returns no end
\* timestamp, and is not taken as the end of the entry script.
C4_ResourceDedup ==
    \A item \in LogItems :
        (item.entry.entryType = "resource"
             /\ item.entry.initiatorType \in {"xmlhttprequest", "fetch"})
        => /\ item.after.nspans = item.before.nspans
           /\ item.after.startTimestamp = item.before.startTimestamp
           /\ item.returned = Undefined
           /\ item.after.entryScriptStartTimestamp = item.before.entryScriptStartTimestamp

C4_Witness ==
    /\ IsCall /\ CallTx.op = "pageload"
    /\ \E item \in Dispatched :
          /\ item.entry.initiatorType = "fetch"
          /\ item.entry.name = entryScriptSrc
          /\ item.before.entryScriptStartTimestamp = Undefined
    /\ \E item \in Dispatched : item.entry.initiatorType = "xmlhttprequest"


\* the last operation was a vital callback of the given kind
IsVital(kind) == lastOp.kind = kind

LastEntry(metric) == metric.entries[Len(metric.entries)]

MarkTypes == {"mark", "paint", "measure"}

\* the absolute start, in seconds, of a timeline entry
AbsoluteStart(entry) ==
    msToSec(platform.browserPerformanceTimeOrigin) + msToSec(entry.startTime)

\* C5: pageload-only attachment.  A call past the gatekeeper sets the
\* transaction's contexts and measurements, from a fresh navigator snapshot,
\* exactly when the transaction's op is 'pageload'; for any other op both are
\* left as they were and no snapshot is taken.  Either way every dispatched
\* mark / paint / measure entry adds its span and the cursor moves to the end
\* of the timeline.
C5_PageloadOnly ==
    (IsCall /\ ~lastOp.gated) =>
        /\ IF CallTxBefore.op = "pageload"
           THEN /\ CallTx.contexts = << [browser |-> _browserContext] >>
                /\ CallTx.measurements = << _measurements >>
                /\ (navigator.present /\ navigator.connection.present
                      /\ navigator.connection.downlink # Undefined)
                   => _measurements["connection.downlink"] = navigator.connection.downlink
                /\ (navigator.present /\ navigator.connection.present
                      /\ navigator.connection.rtt # Undefined)
                   => _measurements["connection.rtt"] = navigator.connection.rtt
           ELSE /\ CallTx.contexts = CallTxBefore.contexts
                /\ CallTx.measurements = CallTxBefore.measurements
                /\ _browserContext = lastOp.before.self._browserContext
                /\ \A k \in {"connection.rtt", "connection.downlink"} :
                      _measurements[k] = lastOp.before.self._measurements[k]
        /\ \A item \in Dispatched :
              item.entry.entryType \in MarkTypes
              => /\ item.after.nspans = item.before.nspans + 1
                 /\ Len(CallTx.spans) >= item.after.nspans
        /\ _performanceCursor = IF timeline = << >> THEN 0 ELSE Len(timeline) - 1

C5_Witness ==
    /\ IsCall /\ ~lastOp.gated
    /\ CallTx.op = "custom"
    /\ Len(CallTx.spans) > Len(CallTxBefore.spans)
    /\ _performanceCursor > lastOp.before.self._performanceCursor
    /\ _measurements["lcp"] # Undefined
    /\ _measurements["connection.rtt"] # Undefined
    /\ navigator.connection.downlink # _measurements["connection.downlink"]
    /\ CallTx.measurements = << >> /\ CallTx.contexts = << >>

\* C6: gatekeeper.  Where the global object, global.performance, getEntries
\* or browserPerformanceTimeOrigin is missing, a call changes nothing: no
\* span, no transaction field, no field of the instrumentation, whatever the op.
C6_Gatekeeper ==
    (IsCall /\ (\/ ~platform.global
                \/ ~platform.performance
                \/ ~platform.getEntries
                \/ platform.browserPerformanceTimeOrigin \in {Undefined, 0}))
    => /\ transactions = lastOp.before.transactions
       /\ Self = lastOp.before.self
       /\ lastOp.log = << >>

C6_Witness ==
    /\ IsCall
    /\ platform.performance /\ platform.getEntries
    /\ platform.browserPerformanceTimeOrigin = Undefined
    /\ CallTx.op = "pageload"
    /\ timeline # << >>
    /\ _measurements["lcp"] # Undefined
    /\ CallTx.measurements = << >> /\ CallTx.spans = << >>

\* C7: navigation-op pre-start filter.  A scanned entry is skipped exactly
\* when the transaction's op is 'navigation' and the entry's absolute start is
\* strictly before the transaction's start at that moment; a skipped entry
\* adds no span, writes no measurement and sets neither the tracing-init mark
\* nor the entry-script end.
C7_PreStartFilter ==
    \A item \in LogItems :
        /\ item.skipped <=> (/\ CallTxBefore.op = "navigation"
                             /\ AbsoluteStart(item.entry) < item.before.startTimestamp)
        /\ item.skipped => (item.after = item.before /\ item.returned = Undefined)

C7_Witness ==
    /\ IsCall /\ CallTx.op = "navigation"
    /\ \E item \in LogItems : item.skipped /\ item.entry.name = << "first-paint" >>
    /\ \E item \in Dispatched :
          /\ AbsoluteStart(item.entry) = item.before.startTimestamp
          /\ item.after.nspans = item.before.nspans + 1

\* C8: vital no-op on empty contributors.  An LCP or FID callback whose
\* metric has no entries leaves the measurement set as it was.
C8_EmptyVital ==
    ((IsVital("lcp") \/ IsVital("fid")) /\ lastOp.metric.entries = << >>)
    => _measurements = lastOp.before.self._measurements

C8_Witness ==
    /\ IsVital("lcp") /\ lastOp.metric.entries = << >>
    /\ _measurements["lcp"] # Undefined
    /\ _measurements["lcp"] # lastOp.metric.value

\* C9: vital firing result.  An LCP (FID) callback whose metric has entries
\* writes lcp (fid) = metric.value and mark.lcp (mark.fid) = the time origin
\* plus the start of the last entry, in seconds, and nothing else: the other
\* measurements, the transactions and the cursor are as before.
C9_VitalResult ==
    /\ (IsVital("lcp") /\ lastOp.metric.entries # << >>)
       => /\ _measurements =
                [lastOp.before.self._measurements EXCEPT
                    !["lcp"] = lastOp.metric.value,
                    !["mark.lcp"] = msToSec(platform.timeOrigin)
                                    + msToSec(LastEntry(lastOp.metric).startTime)]
          /\ transactions = lastOp.before.transactions
          /\ _performanceCursor = lastOp.before.self._performanceCursor
    /\ (IsVital("fid") /\ lastOp.metric.entries # << >>)
       => /\ _measurements =
                [lastOp.before.self._measurements EXCEPT
                    !["fid"] = lastOp.metric.value,
                    !["mark.fid"] = msToSec(platform.timeOrigin)
                                    + msToSec(LastEntry(lastOp.metric).startTime)]
          /\ transactions = lastOp.before.transactions
          /\ _performanceCursor = lastOp.before.self._performanceCursor

C9_Witness ==
    /\ IsVital("fid")
    /\ Len(lastOp.metric.entries) = 2
    /\ lastOp.metric.entries[1].startTime # lastOp.metric.entries[2].startTime
    /\ _measurements["fid"] = 6
    /\ _measurements["mark.fid"] = 1004000
    /\ \E t \in TxIds : transactions[t].spans # << >>

\* the span the call created for a dispatched mark / paint / measure entry
SpanOf(item) == CallTx.spans[item.before.nspans + 1]

\* the dispatched mark / paint / measure entries of the given name
Named(name) ==
    {item \in Dispatched : item.entry.entryType \in MarkTypes /\ item.entry.name = name}

\* C10 as stated: after the scan, fp and mark.fp (fcp and mark.fcp) are those
\* of every dispatched mark / paint / measure entry named 'first-paint'
\* ('first-contentful-paint').
C10_EveryEntry ==
    IsCall =>
        /\ \A item \in Named(<< "first-paint" >>) :
              /\ _measurements["fp"] = item.entry.startTime
              /\ _measurements["mark.fp"] = AbsoluteStart(item.entry)
        /\ \A item \in Named(<< "first-contentful-paint" >>) :
              /\ _measurements["fcp"] = item.entry.startTime
              /\ _measurements["mark.fcp"] = AbsoluteStart(item.entry)

\* C10 amended: once a dispatched mark / paint / measure entry named
\* 'first-paint' ('first-contentful-paint') is processed, fp (fcp) is its raw
\* startTime in ms and mark.fp (mark.fcp) its absolute start in seconds, the
\* start of the span created for it, and nothing else is written; after the
\* scan they are those of the last such entry scanned.  An entry of any other
\* name or type writes no measurement.
C10_LastEntry ==
    IsCall =>
        /\ \A item \in Named(<< "first-paint" >>) :
              /\ item.after.measurements =
                    [item.before.measurements EXCEPT
                        !["fp"] = item.entry.startTime,
                        !["mark.fp"] = AbsoluteStart(item.entry)]
              /\ SpanOf(item).startTimestamp = AbsoluteStart(item.entry)
              /\ SpanOf(item).description = item.entry.name
              /\ (\A later \in Named(<< "first-paint" >>) : later.index <= item.index)
                 => /\ _measurements["fp"] = item.entry.startTime
                    /\ _measurements["mark.fp"] = AbsoluteStart(item.entry)
        /\ \A item \in Named(<< "first-contentful-paint" >>) :
              /\ item.after.measurements =
                    [item.before.measurements EXCEPT
                        !["fcp"] = item.entry.startTime,
                        !["mark.fcp"] = AbsoluteStart(item.entry)]
              /\ SpanOf(item).startTimestamp = AbsoluteStart(item.entry)
              /\ SpanOf(item).description = item.entry.name
              /\ (\A later \in Named(<< "first-contentful-paint" >>) :
                     later.index <= item.index)
                 => /\ _measurements["fcp"] = item.entry.startTime
                    /\ _measurements["mark.fcp"] = AbsoluteStart(item.entry)
        /\ \A item \in LogItems :
              item \notin (Named(<< "first-paint" >>)
                           \cup Named(<< "first-contentful-paint" >>))
              => item.after.measurements = item.before.measurements

C10_Witness ==
    /\ IsCall
    /\ \E a, b \in Named(<< "first-paint" >>) :
          /\ a.index < b.index
          /\ a.entry.startTime # b.entry.startTime
          /\ _measurements["fp"] = b.entry.startTime
          /\ _measurements["fp"] = 3
          /\ _measurements["mark.fp"] = 1003000


\* the spans the last call created while it processed the logged entry
Added(item) == SubSeq(CallTx.spans, item.before.nspans + 1, item.after.nspans)

\* the positions, among the spans added for item, of those with the description
Described(item, description) ==
    {k \in 1..Len(Added(item)) : Added(item)[k].description = << description >>}

NavigationEvents ==
    {"unloadEvent", "domContentLoadedEvent", "loadEvent", "connect", "domainLookup"}

\* C11: navigation entry spans.  A dispatched navigation entry yields, for each
\* of the five events, one 'browser' span named after the event exactly when
\* both its Start and End are truthy, from timeOrigin + Start/1000 to
\* timeOrigin + End/1000; and one 'request' span (requestStart to responseEnd)
\* and one 'response' span (responseStart to responseEnd), both 'browser'; and
\* no other span.
C11_NavigationSpans ==
    IsCall =>
      \A item \in Dispatched :
        item.entry.entryType = "navigation" =>
          /\ \A event \in NavigationEvents :
                IF Truthy(item.entry.nav[event \o "Start"])
                   /\ Truthy(item.entry.nav[event \o "End"])
                THEN /\ Cardinality(Described(item, event)) = 1
                     /\ \A k \in Described(item, event) :
                           /\ Added(item)[k].op = "browser"
                           /\ Added(item)[k].startTimestamp =
                                  msToSec(platform.browserPerformanceTimeOrigin)
                                  + 1000 * item.entry.nav[event \o "Start"]
                           /\ Added(item)[k].endTimestamp =
                                  msToSec(platform.browserPerformanceTimeOrigin)
                                  + 1000 * item.entry.nav[event \o "End"]
                ELSE Described(item, event) = {}
          /\ Cardinality(Described(item, "request")) = 1
          /\ \A k \in Described(item, "request") :
                /\ Added(item)[k].op = "browser"
                /\ Added(item)[k].startTimestamp = AbsoluteStart([startTime |->
                                                      item.entry.nav["requestStart"]])
                /\ Added(item)[k].endTimestamp = AbsoluteStart([startTime |->
                                                      item.entry.nav["responseEnd"]])
          /\ Cardinality(Described(item, "response")) = 1
          /\ \A k \in Described(item, "response") :
                /\ Added(item)[k].op = "browser"
                /\ Added(item)[k].startTimestamp = AbsoluteStart([startTime |->
                                                      item.entry.nav["responseStart"]])
                /\ Added(item)[k].endTimestamp = AbsoluteStart([startTime |->
                                                      item.entry.nav["responseEnd"]])
          /\ \A k \in 1..Len(Added(item)) :
                \E d \in NavigationEvents \cup {"request", "response"} :
                    k \in Described(item, d)

C11_Witness ==
    /\ IsCall
    /\ \E item \in Dispatched :
          /\ item.entry.entryType = "navigation"
          /\ item.entry.nav["domainLookupStart"] = 1
          /\ item.entry.nav["domainLookupEnd"] = Undefined
          /\ item.entry.nav["unloadEventStart"] = 0
          /\ Len(Added(item)) = 4
          /\ \E k \in Described(item, "loadEvent") :
                /\ Added(item)[k].startTimestamp = 1008000
                /\ Added(item)[k].endTimestamp = 1009000


\* the operations in which _trackNavigator runs
TracksNavigator ==
    \/ lastOp.kind = "constructor" /\ platform.global /\ platform.performance
    \/ IsCall /\ ~lastOp.gated /\ CallTx.op = "pageload"

HasConnection == navigator.present /\ navigator.connection.present

\* C12: context snapshot selectivity.  With navigator.connection absent and
\* only device memory detectable, deviceMemory is the only browser-context
\* field set and no connection value is recorded.  In general a run of
\* _trackNavigator changes effectiveConnectionType, connection.rtt,
\* connection.downlink, deviceMemory or hardwareConcurrency only to the value
\* of that field's own capability, where it is present.
C12_SnapshotSelectivity ==
    /\ (navigator.present /\ ~navigator.connection.present
          /\ navigator.deviceMemory # Undefined
          /\ navigator.hardwareConcurrency = Undefined)
       => /\ _browserContext \in
                {NoBrowserContext,
                 [NoBrowserContext EXCEPT !.deviceMemory = navigator.deviceMemory]}
          /\ TracksNavigator =>
                _browserContext =
                    [NoBrowserContext EXCEPT !.deviceMemory = navigator.deviceMemory]
          /\ _measurements["connection.rtt"] = Undefined
          /\ _measurements["connection.downlink"] = Undefined
    /\ TracksNavigator =>
          /\ _browserContext.effectiveConnectionType
                 # lastOp.before.self._browserContext.effectiveConnectionType
             => /\ HasConnection
                /\ navigator.connection.effectiveType # ""
                /\ _browserContext.effectiveConnectionType
                       = navigator.connection.effectiveType
          /\ _measurements["connection.rtt"]
                 # lastOp.before.self._measurements["connection.rtt"]
             => /\ HasConnection
                /\ navigator.connection.rtt # Undefined
                /\ _measurements["connection.rtt"] = navigator.connection.rtt
          /\ _measurements["connection.downlink"]
                 # lastOp.before.self._measurements["connection.downlink"]
             => /\ HasConnection
                /\ navigator.connection.downlink # Undefined
                /\ _measurements["connection.downlink"] = navigator.connection.downlink
          /\ _browserContext.deviceMemory
                 # lastOp.before.self._browserContext.deviceMemory
             => /\ navigator.present /\ navigator.deviceMemory # Undefined
                /\ _browserContext.deviceMemory = navigator.deviceMemory
          /\ _browserContext.hardwareConcurrency
                 # lastOp.before.self._browserContext.hardwareConcurrency
             => /\ navigator.present /\ navigator.hardwareConcurrency # Undefined
                /\ _browserContext.hardwareConcurrency = navigator.hardwareConcurrency

C12_Witness ==
    /\ IsCall /\ ~lastOp.gated /\ CallTx.op = "pageload"
    /\ navigator.present /\ ~navigator.connection.present
    /\ navigator.deviceMemory = 8
    /\ _browserContext = [NoBrowserContext EXCEPT !.deviceMemory = 8]
    /\ CallTx.contexts = << [browser |-> _browserContext] >>
    /\ _measurements["connection.rtt"] = Undefined


\* the scan of the call before the last one, where there is one
HasPreviousScan == IsCall /\ ~lastOp.gated /\ lastOp.before.scans # << >>

PreviousScan == lastOp.before.scans[Len(lastOp.before.scans)]

\* the first index the last call visited
FirstVisited == lastOp.log[1].index

\* the cursor before any call, and after a call past the gatekeeper
CursorRule ==
    /\ scans = << >> => _performanceCursor = 0
    /\ (IsCall /\ ~lastOp.gated) =>
          _performanceCursor = IF Len(timeline) - 1 > 0 THEN Len(timeline) - 1 ELSE 0

\* C13 as stated: the cursor rule, and after a call that ended on a timeline of
\* length L >= 1 the next call's scan begins with the last entry, which that
\* previous call dispatched.
C13_RescansDispatched ==
    /\ CursorRule
    /\ (HasPreviousScan /\ PreviousScan.length >= 1) =>
          /\ lastOp.log # << >>
          /\ FirstVisited = PreviousScan.length - 1
          /\ FirstVisited \in PreviousScan.dispatched

\* C13 amended: the cursor starts at 0 and after every call past the
\* gatekeeper it is max(L - 1, 0), L the timeline length; so when L >= 1 the
\* next call's scan begins with the last entry the previous call visited,
\* which that call either dispatched or dropped by the navigation filter.
C13_CursorRule ==
    /\ CursorRule
    /\ (HasPreviousScan /\ PreviousScan.length >= 1) =>
          /\ lastOp.log # << >>
          /\ FirstVisited = PreviousScan.length - 1
          /\ FirstVisited \in PreviousScan.visited

C13_Witness ==
    /\ HasPreviousScan
    /\ PreviousScan.length = 2
    /\ Len(timeline) = 2
    /\ FirstVisited = 1
    /\ 1 \in PreviousScan.visited \ PreviousScan.dispatched
    /\ _performanceCursor = 1


\* the dispatched resource entries, not fetch or xhr, whose name without the
\* origin occurs in the entry script src
ScriptItems ==
    {item \in Dispatched :
        /\ item.entry.entryType = "resource"
        /\ item.entry.initiatorType \notin {"xmlhttprequest", "fetch"}
        /\ IndexOf(entryScriptSrc, ReplaceFirst(item.entry.name, Origin)) > -1}

\* the dispatched mark / paint / measure entries named 'sentry-tracing-init'
InitItems ==
    {item \in Dispatched :
        item.entry.entryType \in MarkTypes /\ item.entry.name = InitMarkName}

\* the first of a non-empty set of log items
First(items) == CHOOSE item \in items : \A other \in items : item.index <= other.index

\* the number of spans on the transaction when the scan of the last call ended
SpansAfterScan ==
    IF lastOp.log = << >> THEN Len(CallTxBefore.spans)
    ELSE lastOp.log[Len(lastOp.log)].after.nspans

\* the spans the last call added, from first to last
SpansOfCall == SubSeq(CallTx.spans, Len(CallTxBefore.spans) + 1, Len(CallTx.spans))

\* C14: evaluation span.  After its scan a call emits exactly one more span,
\* 'evaluation' / 'script', exactly when that scan captured both the end of an
\* entry-script resource and the start of a tracing-init mark; the span runs
\* from the end of the first such resource to the start of the first such
\* mark.  Otherwise the call emits no span after the scan.
C14_EvaluationSpan ==
    (IsCall /\ ~lastOp.gated) =>
        IF ScriptItems # {} /\ InitItems # {}
        THEN /\ Len(CallTx.spans) = SpansAfterScan + 1
             /\ CallTx.spans[Len(CallTx.spans)].description = << "evaluation" >>
             /\ CallTx.spans[Len(CallTx.spans)].op = "script"
             /\ CallTx.spans[Len(CallTx.spans)].startTimestamp =
                    AbsoluteStart(First(ScriptItems).entry)
                    + 1000 * First(ScriptItems).entry.duration
             /\ CallTx.spans[Len(CallTx.spans)].endTimestamp =
                    AbsoluteStart(First(InitItems).entry)
             /\ Cardinality({k \in 1..Len(SpansOfCall) :
                                SpansOfCall[k].description = << "evaluation" >>}) = 1
        ELSE /\ Len(CallTx.spans) = SpansAfterScan
             /\ \A k \in 1..Len(SpansOfCall) :
                   SpansOfCall[k].description # << "evaluation" >>

C14_Witness ==
    /\ IsCall /\ ~lastOp.gated
    /\ ScriptItems # {} /\ InitItems # {}
    /\ First(InitItems).index < First(ScriptItems).index
    /\ Len(CallTx.spans) = 3
    /\ CallTx.spans[3].op = "script"
    /\ CallTx.spans[3].startTimestamp = 1002000
    /\ CallTx.spans[3].endTimestamp = 1003000


\* the keys on which two measurement sets differ
Changed(before, after) == {k \in MKeys : before[k] # after[k]}

ScanKeys == {"fp", "mark.fp", "fcp", "mark.fcp"}
LCPKeys == {"lcp", "mark.lcp"}
FIDKeys == {"fid", "mark.fid"}
NavigatorKeys == {"connection.rtt", "connection.downlink"}

\* the measurement set when the scan of the last call ended
MeasurementsAfterScan ==
    IF lastOp.log = << >> THEN lastOp.before.self._measurements
    ELSE lastOp.log[Len(lastOp.log)].after.measurements

\* C15: single writer per measurement key.  Whatever the interleaving, the
\* scan changes only fp, mark.fp, fcp, mark.fcp; the LCP callback only lcp,
\* mark.lcp; the FID callback only fid, mark.fid; the navigator snapshot (in
\* the constructor and at the end of a pageload call) only connection.rtt,
\* connection.downlink; and nothing else changes a measurement.
C15_SingleWriter ==
    /\ IsVital("lcp") => Changed(lastOp.before.self._measurements, _measurements)
                             \subseteq LCPKeys
    /\ IsVital("fid") => Changed(lastOp.before.self._measurements, _measurements)
                             \subseteq FIDKeys
    /\ IsCall =>
          /\ \A item \in LogItems :
                Changed(item.before.measurements, item.after.measurements)
                    \subseteq ScanKeys
          /\ Changed(lastOp.before.self._measurements, MeasurementsAfterScan)
                 \subseteq ScanKeys
          /\ Changed(MeasurementsAfterScan, _measurements) \subseteq NavigatorKeys
    /\ lastOp.kind = "constructor" =>
          Changed(NoMeasurements, _measurements) \subseteq NavigatorKeys
    /\ lastOp.kind \in {"append", "connection"} =>
          _measurements = lastOp.before.self._measurements

C15_Witness ==
    /\ IsCall /\ ~lastOp.gated
    /\ Changed(lastOp.before.self._measurements, MeasurementsAfterScan)
           = {"fp", "mark.fp"}
    /\ Changed(MeasurementsAfterScan, _measurements) = {"connection.downlink"}
    /\ lastOp.before.self._measurements["lcp"] # Undefined
    /\ lastOp.before.self._measurements["fid"] # Undefined
    /\ _measurements["mark.lcp"] = lastOp.before.self._measurements["mark.lcp"]


\* the transactions holding measurements, and the set each holds
Holding == {t \in TxIds : transactions[t].measurements # << >>}

Held(t) == transactions[t].measurements[1]

VitalKeys == LCPKeys \cup FIDKeys

\* C16: late-vital race.  The measurements a pageload call attaches contain
\* every vital that fired before the call; what a transaction holds changes
\* only by a further call for that transaction, so a vital firing afterwards
\* reaches the measurement set of the instrumentation and not the set the
\* transaction already holds.
C16_LateVital ==
    /\ (IsCall /\ ~lastOp.gated /\ CallTx.op = "pageload") =>
          /\ lastOp.tx \in Holding
          /\ \A k \in VitalKeys :
                Held(lastOp.tx)[k] = lastOp.before.self._measurements[k]
    /\ \A t \in TxIds :
          ~(IsCall /\ lastOp.tx = t) =>
              transactions[t].measurements = lastOp.before.transactions[t].measurements
    /\ (IsVital("lcp") /\ lastOp.metric.entries # << >>) =>
          /\ _measurements["lcp"] = lastOp.metric.value
          /\ \A t \in Holding :
                /\ Held(t)["lcp"] = lastOp.before.transactions[t].measurements[1]["lcp"]
                /\ Held(t)["mark.lcp"]
                       = lastOp.before.transactions[t].measurements[1]["mark.lcp"]
    /\ (IsVital("fid") /\ lastOp.metric.entries # << >>) =>
          /\ _measurements["fid"] = lastOp.metric.value
          /\ \A t \in Holding :
                /\ Held(t)["fid"] = lastOp.before.transactions[t].measurements[1]["fid"]
                /\ Held(t)["mark.fid"]
                       = lastOp.before.transactions[t].measurements[1]["mark.fid"]

C16_Witness ==
    /\ IsVital("lcp") /\ lastOp.metric.value = 9
    /\ \E t \in Holding :
          /\ transactions[t].op = "pageload"
          /\ Held(t)["fid"] = 6
          /\ Held(t)["lcp"] = Undefined
          /\ _measurements["lcp"] = 9
          /\ _measurements["mark.lcp"] # Held(t)["mark.lcp"]


\* the last truncation before the last operation, and whether it left the
\* cursor at or past the end of the timeline
Truncated == lastOp.before.truncation

StaleCursor == Truncated.count > 0 /\ Truncated.cursor >= Truncated.length

\* the indices below the stale cursor filled by appends after the truncation
\* and before the end of the first call after it
BelowStaleCursor ==
    {i \in 0..(Len(timeline) - 1) :
        /\ Truncated.length <= i /\ i < Truncated.cursor
        /\ Truncated.resumed # Undefined => i < Truncated.resumed}

\* the last operation is the first call after the truncation
FirstCallAfterTruncation == IsCall /\ ~lastOp.gated /\ Truncated.resumed = Undefined

VisitedBy(i) == {k \in 1..Len(scans) : i \in scans[k].visited}

\* the timeline length at the end of the call before call k (0 before the first)
LengthBefore(k) == IF k = 1 THEN 0 ELSE scans[k - 1].length

\* every entry present at a call was visited by that call or an earlier one
Covered ==
    \A k \in 1..Len(scans) :
        \A i \in 0..(scans[k].length - 1) : \E j \in 1..k : j \in VisitedBy(i)

C19_NavigationKeepsStart ==
    /\ \A t \in TxIds :
          transactions[t].op = "navigation" =>
              transactions[t].startTimestamp
                  = lastOp.before.transactions[t].startTimestamp
    /\ (IsCall /\ CallTxBefore.op = "navigation") =>
          /\ \A item \in LogItems :
                item.after.startTimestamp = CallTxBefore.startTimestamp
          /\ \A k \in 1..Len(SpansOfCall) :
                SpansOfCall[k].startTimestamp >= CallTxBefore.startTimestamp

C19_Witness ==
    /\ IsCall /\ CallTx.op = "navigation"
    /\ CallTx.startTimestamp = TxStart
    /\ \E item \in Dispatched :
          /\ item.entry.entryType = "resource"
          /\ AbsoluteStart(item.entry) = TxStart
    /\ Len(SpansOfCall) = 3
    /\ SpansOfCall[3].description = << "evaluation" >>
    /\ SpansOfCall[3].startTimestamp = 1003000


\* the positions of event e in a sequence of events
At(events, e) == {i \in 1..Len(events) : events[i] = e}

\* every e2 in the sequence has an e1 before it
Precedes(events, e1, e2) ==
    \A j \in At(events, e2) : \E i \in At(events, e1) : i < j

\* the positions at which the original res.end was invoked
Ended(call) == At(call, "_end") \cup At(call, "_end throws")

\* C20: request-wrapper ordering.  The transaction is started before the
\* user handler runs.  For every call of the wrapped res.end the HTTP status
\* is set on the transaction and the transaction finished before the flush
\* starts; the original res.end is invoked at most once, and only after the
\* flush has resolved; if the flush rejects it is not invoked at all and the
\* only thing that follows is the logging of the error.
C20_RequestOrdering ==
    \A r \in Requests :
        /\ http[r].events # << >> =>
              /\ http[r].transaction.started
              /\ At(http[r].events, "fn") # {}
              /\ Precedes(http[r].events, "startTransaction", "fn")
        /\ http[r].ends # << >> =>
              /\ http[r].events # << >>
              /\ http[r].transaction.status = http[r].statusCode
              /\ http[r].transaction.status \in StatusCodes
              /\ http[r].transaction.finished = Len(http[r].ends)
        /\ \A k \in 1..Len(http[r].ends) :
              /\ At(http[r].ends[k], "flush") # {}
              /\ Precedes(http[r].ends[k], "setHttpStatus", "flush")
              /\ Precedes(http[r].ends[k], "finish", "flush")
              /\ Precedes(http[r].ends[k], "setHttpStatus", "finish")
              /\ Cardinality(Ended(http[r].ends[k])) <= 1
              /\ \A i \in Ended(http[r].ends[k]) :
                    /\ \E j \in At(http[r].ends[k], "resolved") : j < i
                    /\ \E j \in At(http[r].ends[k], "flush") : j < i
              /\ At(http[r].ends[k], "rejected") # {} =>
                    /\ Ended(http[r].ends[k]) = {}
                    /\ \A j \in At(http[r].ends[k], "rejected") :
                          \A i \in (j + 1)..Len(http[r].ends[k]) :
                              http[r].ends[k][i] = "logger.error"

C20_Witness ==
    \E r \in Requests :
        /\ Len(http[r].ends) = 2
        /\ http[r].ends[1] =
               << "setHttpStatus", "finish", "flush", "rejected", "logger.error" >>
        /\ http[r].ends[2] = << "setHttpStatus", "finish", "flush", "resolved", "_end" >>
        /\ http[r].transaction.status = 500
        /\ http[r].transaction.finished = 2

====
